---- MODULE Spec2Model ----
(***************************************************************************)
(* Request/response lifecycle of flask_rest_jsonapi/resource.py:           *)
(* Resource.dispatch_request wrapped around the verb handlers of           *)
(* ResourceList, ResourceDetail and ResourceRelationship.                  *)
(*                                                                         *)
(* One resource type "articles" is registered, with a to-many relationship *)
(* field "co_authors" of related type "people".  The data layer and the    *)
(* marshmallow schema are collaborators outside resource.py: the data      *)
(* layer is modelled from its contract, the outcome of schema.load is an   *)
(* input of the request.                                                   *)
(***************************************************************************)
EXTENDS Integers, Sequences, FiniteSets, TLC

\* ------------------------------------------------------------------ bounds
MaxObj == 2        \* object identifiers are 1..MaxObj
MaxList == 2       \* longest "data" list of a relationship body

ObjIds == 1..MaxObj
Titles == {"a", "b"}
RelIds == {"1"}
None == "None"
Absent == "<absent>"            \* a key the JSON object does not carry
AbsentId == <<"absent", "">>

\* The registered schema: wire type, its relationship field, the related type.
ResourceType == "articles"
RelationshipField == "co_authors"
RelatedType == "people"

VARIABLES
    config,     \* current_app.config, fixed at start-up
    objects,    \* the backing store of the data layer
    registry,   \* class-level descriptor data shared by all requests
    request,    \* the request being served (flask.request)
    calls,      \* hooks and data-layer methods invoked by this request, in order
    result,     \* what the verb handler returned or raised
    response,   \* what dispatch_request returned
    held        \* what a client kept of an earlier response: its ETag, its
                \* document and the request it answered

vars == <<config, objects, registry, request, calls, result, response, held>>

\* ------------------------------------------------------------- conversions
\* str(x) of an integer
Str(i) == ToString(i)

\* A JSON scalar keeps its type: the string "1" and the number 1 differ.
JStr(s) == <<"str", s>>
JInt(i) == <<"int", ToString(i)>>

\* ------------------------------------------------------------- documents
\* Every document is a record of the same shape; unused members keep these
\* defaults.  shape: "text" is the Python str '', the others are dicts.
BlankDoc ==
    [shape |-> "text", id |-> "", title |-> "", deleted_at |-> None,
     self |-> None, data_self |-> None, related |-> None, linkage |-> {}, include |-> <<>>,
     items |-> <<>>, count |-> 0 - 1, message |-> "", errors |-> <<>>,
     jsonapi |-> FALSE]

IsDict(doc) == doc.shape # "text"

\* response.update({'jsonapi': {'version': '1.0'}})
Stamp(doc) == [doc EXCEPT !.jsonapi = TRUE]

\* json.dumps(data): the encoded body; json.dumps('') is the 2 characters "".
JsonDumps(doc) == IF doc.shape = "text" THEN ToString("") ELSE ToString(doc)

\* hashlib.sha1(body).hexdigest(): distinct bodies of the model get distinct digests
Sha1(body) == "sha1(" \o body \o ")"

\* jsonapi_errors([e.to_dict()])
ErrorDoc(exc) ==
    [BlankDoc EXCEPT !.shape = "errors",
        !.errors = <<[status |-> Str(exc.status), title |-> exc.title,
                      pointer |-> exc.pointer, detail |-> exc.detail]>>]

Exc(status, title, pointer, detail) ==
    [status |-> status, title |-> title, pointer |-> pointer, detail |-> detail]

NoExc == Exc(0, "", "", "")

BadRequest(pointer, detail) == Exc(400, "Bad request", pointer, detail)
InvalidType(pointer, detail) == Exc(409, "Invalid type", pointer, detail)
ObjectNotFound(pointer, detail) == Exc(404, "Object not found", pointer, detail)
RelationNotFound(pointer, detail) == Exc(404, "Relation not found", pointer, detail)
PreconditionFailed(pointer, detail) == Exc(412, "Precondition failed", pointer, detail)
NotModified(pointer, detail) == Exc(304, "Resource not modified", pointer, detail)
JsonApiException(pointer, detail) == Exc(500, "Unknown error", pointer, detail)

\* ------------------------------------------------------------ data layer
\* The data layer behind self._data_layer (contract of the storage capability).
NoObject == [exists |-> FALSE, title |-> "a", deleted_at |-> None, authors |-> {}]

\* get_object(kwargs, get_trashed): the id of the object, or 0 for None
get_object(objs, id, get_trashed) ==
    IF objs[id].exists /\ (objs[id].deleted_at = None \/ get_trashed) THEN id ELSE 0

\* update_object(obj, data, kwargs): set the attributes named in data
update_object(objs, id, data) ==
    [objs EXCEPT ![id] =
        [@ EXCEPT !.title = IF data.title = None THEN @ ELSE data.title,
                  !.deleted_at = IF data.deleted_at = None THEN @ ELSE data.deleted_at]]

\* delete_object(obj, kwargs)
delete_object(objs, id) == [objs EXCEPT ![id] = NoObject]

FreeIds(objs) == {i \in ObjIds : ~objs[i].exists}
NewId(objs) == CHOOSE i \in FreeIds(objs) : \A j \in FreeIds(objs) : i <= j

\* create_object(data, kwargs)
create_object(objs, data) ==
    [objs EXCEPT ![NewId(objs)] =
        [exists |-> TRUE, title |-> data.title, deleted_at |-> None, authors |-> {}]]

\* create_relationship(json_data, field, id_field, kwargs) -> (obj, updated)
create_relationship(objs, id, ids) ==
    [objects |-> [objs EXCEPT ![id].authors = @ \cup ids],
     updated |-> ~(ids \subseteq objs[id].authors)]

\* update_relationship(json_data, field, id_field, kwargs) -> (obj, updated)
update_relationship(objs, id, ids) ==
    [objects |-> [objs EXCEPT ![id].authors = ids],
     updated |-> ids # objs[id].authors]

\* delete_relationship(json_data, field, id_field, kwargs) -> (obj, updated)
delete_relationship(objs, id, ids) ==
    [objects |-> [objs EXCEPT ![id].authors = @ \ ids],
     updated |-> (ids \cap objs[id].authors) # {}]

\* -------------------------------------------------------------- registry
Classes == {"ResourceList", "ResourceDetail", "ResourceRelationship"}

\* related_view_kwargs = {'id': '<id>'}: the value is a placeholder or a text
Placeholder(path) == [placeholder |-> TRUE, path |-> path, text |-> ""]
Text(t) == [placeholder |-> FALSE, path |-> <<>>, text |-> t]

Registered(declared) ==
    [deleted_at_declared |-> declared,
     get_schema_kwargs |-> {},
     patch_schema_kwargs |-> {},
     related_view_kwargs |-> Placeholder(<<"id">>),
     resource |-> [c \in Classes |-> None]]

\* Resource.__new__: cls._data_layer.resource = cls
New(reg, cls) == [reg EXCEPT !.resource[cls] = cls]

\* --------------------------------------------------------------- schema
\* url_for(self_view, id=obj.id): the self link of an object
SelfLink(id) == "/articles/" \o Str(id)

\* schema.dump(obj).data for a schema computed with the given include list
Dump(objs, reg, id, include) ==
    [BlankDoc EXCEPT !.shape = "resource", !.id = Str(id), !.title = objs[id].title,
        !.deleted_at = IF reg.deleted_at_declared THEN objs[id].deleted_at ELSE None,
        !.self = SelfLink(id), !.data_self = SelfLink(id),
        !.include = include,
        !.linkage = IF \E i \in DOMAIN include : include[i] = RelationshipField
                    THEN objs[id].authors ELSE {}]

\* e.messages / errors of schema.load, every entry given a status and a title
LoadErrors(req, status, title) ==
    [BlankDoc EXCEPT !.shape = "errors",
        !.errors = [i \in DOMAIN req.json.load_errors |->
                       [status |-> status, title |-> title,
                        pointer |-> req.json.load_errors[i], detail |-> "invalid"]]]

\* --------------------------------------------------- handler outcomes
\* one invocation of a hook or of a data-layer method; arg is what the claims
\* need of its arguments or of its return value
Call(op, arg) == [op |-> op, arg |-> arg]

\* the "updated" flag a relationship method of the data layer returned
Flag(updated) == IF updated THEN "True" ELSE "False"

\* return data | return data, status | return data, status, headers
Return(form, data, status, location) ==
    [kind |-> "return", form |-> form, data |-> data, status |-> status,
     location |-> location, exc |-> NoExc, text |-> "", mimetype |-> None]

\* raise of a JsonApiException
Raise(exc) ==
    [kind |-> "jsonapi_exception", form |-> "", data |-> BlankDoc, status |-> 0,
     location |-> None, exc |-> exc, text |-> "", mimetype |-> None]

\* raise of any other exception, text is str(e)
Crash(text) ==
    [kind |-> "exception", form |-> "", data |-> BlankDoc, status |-> 0,
     location |-> None, exc |-> NoExc, text |-> text, mimetype |-> None]

\* return of a werkzeug Response the handler built itself; mimetype is the
\* Content-Type it was built with, None when it has none
ReturnResponse(data, status, mimetype) ==
    [Return("response", data, status, None) EXCEPT !.mimetype = mimetype]

\* no outcome yet: the handler goes on
Pass == [Crash("") EXCEPT !.kind = "pass"]

Outcome(res, cs, objs, reg) ==
    [result |-> res, calls |-> cs, objects |-> objs, registry |-> reg]

\* the branch after a failed schema.load with every failure answered 422
LoadFailureAlways422(req) ==
    Return("pair", LoadErrors(req, "422", "Validation error"), 422, None)

\* The branch common to ResourceList.post and ResourceDetail.patch after
\* schema.load failed: the error document and its status.
LoadFailure(req) ==
    CASE req.json.load = "incorrect_type" ->
            Return("pair", LoadErrors(req, "409", "Incorrect type"), 409, None)
      [] req.json.load = "validation_raised" ->
            Return("pair", LoadErrors(req, "422", "Validation error"), 422, None)
      [] OTHER ->
            Return("pair", LoadErrors(req, "422", "Validation error"), 422, None)

\* The before_* hooks do nothing unless a subclass overrides them; req.hook is
\* what the hook of the resource does on this request: "pass", "raise" (a
\* JsonApiException, here an access check that fails) or "crash" (any other
\* exception).
AccessDenied(pointer, detail) == Exc(403, "Access denied", pointer, detail)

\* a hook whose exception is swallowed
HookIgnored(req) == FALSE

HookRaises(req) == req.hook # "pass"

HookResult(req) ==
    IF req.hook = "raise" THEN Raise(AccessDenied("", "hook")) ELSE Crash("hook failed")

\* ------------------------------------------------------ ResourceDetail
\* "if obj is None" answered with an empty document instead of the exception
NotFoundAsEmpty(cs, objs, reg) ==
    Outcome(Return("bare", [BlankDoc EXCEPT !.shape = "resource"], 200, None), cs, objs, reg)

\* if obj is None: raise ObjectNotFound({'pointer': ''}, 'Object Not Found')
NotFound(cs, objs, reg) ==
    Outcome(Raise(ObjectNotFound("", "Object Not Found")), cs, objs, reg)

GetTrashed(req) == req.args.get_trashed = "true"

DetailGetHandler(cfg, objs, reg, req) ==
    LET trashed == GetTrashed(req)
        obj == get_object(objs, req.id, trashed)
        cs == <<Call("before_get", ""),
                Call("get_object", IF trashed THEN "get_trashed" ELSE "")>>
    IN  IF HookRaises(req)
        THEN Outcome(HookResult(req), <<Call("before_get", "")>>, objs, reg)
        ELSE IF obj = 0
        THEN NotFound(cs, objs, reg)
        ELSE Outcome(Return("bare", Dump(objs, reg, obj, req.args.include), 200, None),
                     Append(cs, Call("after_get", "")), objs, reg)

\* json_data['data']['id'] != str(kwargs[url_field]), written for a caller that
\* compares the texts only
IdDiffersLoose(body_id, url_id) == body_id[2] # Str(url_id)

\* json_data['data']['id'] != str(kwargs[self.data_layer.get('url_field', 'id')])
IdDiffers(body_id, url_id) == body_id # JStr(Str(url_id))

\* data of schema.load for an update: the attributes carried by the body
LoadedData(req) == [title |-> req.json.title, deleted_at |-> None]

DetailPatchHandler(cfg, objs, reg, req) ==
    LET reg1 == [reg EXCEPT !.patch_schema_kwargs = @ \cup {"partial"}]
        body == req.json.data[1]
        trashed == GetTrashed(req)
        obj == get_object(objs, req.id, trashed)
        cs1 == <<Call("before_patch", ""),
                 Call("get_object", IF trashed THEN "get_trashed" ELSE "")>>
        objs1 == update_object(objs, obj, LoadedData(req))
    IN  IF req.json.load # "ok"
        THEN Outcome(LoadFailure(req), <<>>, objs, reg1)
        ELSE IF body.id = AbsentId
        THEN Outcome(Raise(BadRequest("/data/id", "Missing id in data node")),
                     <<>>, objs, reg1)
        ELSE IF IdDiffers(body.id, req.id)
        THEN Outcome(Raise(BadRequest("/data/id",
                        "Value of id does not match the resource identifier in url")),
                     <<>>, objs, reg1)
        ELSE IF HookRaises(req)
        THEN Outcome(HookResult(req), <<Call("before_patch", "")>>, objs, reg1)
        ELSE IF obj = 0
        THEN NotFound(cs1, objs, reg1)
        ELSE Outcome(Return("bare", Dump(objs1, reg1, obj, req.args.include), 200, None),
                     cs1 \o <<Call("update_object", "title"), Call("after_patch", "")>>,
                     objs1, reg1)

\* str(datetime.now(pytz.utc))
Now == "now"

\* request.args.get('permanent') read as a boolean whatever its letter case
PermanentParsed(req) == req.args.permanent \in {"true", "True"}

\* request.args.get('permanent') == 'true'
Permanent(req) == req.args.permanent = "true"

\* the test of line 311 without its SOFT_DELETE disjunct
HardDeleteWhateverConfig(cfg, reg, req) ==
    ~reg.deleted_at_declared \/ Permanent(req)

\* line 311: the object is deleted for good
HardDelete(cfg, reg, req) ==
    ~reg.deleted_at_declared \/ Permanent(req) \/ cfg.SOFT_DELETE = FALSE

DetailDeleteHandler(cfg, objs, reg, req) ==
    LET obj == get_object(objs, req.id, Permanent(req))
        cs == <<Call("before_delete", ""),
                Call("get_object", IF Permanent(req) THEN "get_trashed" ELSE "")>>
        done == [BlankDoc EXCEPT !.shape = "meta",
                                 !.message = "Object successfully deleted"]
    IN  IF HookRaises(req)
        THEN Outcome(HookResult(req), <<Call("before_delete", "")>>, objs, reg)
        ELSE IF obj = 0
        THEN NotFound(cs, objs, reg)
        ELSE IF HardDelete(cfg, reg, req)
        THEN Outcome(Return("bare", done, 200, None),
                     cs \o <<Call("delete_object", ""), Call("after_delete", "")>>,
                     delete_object(objs, obj), reg)
        ELSE Outcome(Return("bare", done, 200, None),
                     cs \o <<Call("update_object", "deleted_at"), Call("after_delete", "")>>,
                     update_object(objs, obj, [title |-> None, deleted_at |-> Now]), reg)

\* -------------------------------------------------------- ResourceList
\* get_collection(qs, kwargs): the count and the objects that are not trashed
Collection(objs) == {i \in ObjIds : objs[i].exists /\ objs[i].deleted_at = None}

RECURSIVE Ascending(_)
Ascending(ids) ==
    IF ids = {} THEN <<>>
    ELSE LET m == CHOOSE i \in ids : \A j \in ids : i <= j
         IN  <<m>> \o Ascending(ids \ {m})

\* schema.dump(objects).data with many=True, the links and meta.count
DumpMany(objs, ids) ==
    [BlankDoc EXCEPT !.shape = "collection", !.self = "/articles",
        !.items = [k \in DOMAIN Ascending(ids) |->
                      [id |-> Str(Ascending(ids)[k]),
                       title |-> objs[Ascending(ids)[k]].title]],
        !.count = Cardinality(ids)]

ListGetHandler(cfg, objs, reg, req) ==
    LET reg1 == [reg EXCEPT !.get_schema_kwargs = @ \cup {"many"}]
    IN  IF HookRaises(req)
        THEN Outcome(HookResult(req), <<Call("before_get", "")>>, objs, reg)
        ELSE Outcome(Return("bare", DumpMany(objs, Collection(objs)), 200, None),
                     <<Call("before_get", ""), Call("get_collection", ""),
                       Call("after_get", "")>>,
                     objs, reg1)

ListPostHandler(cfg, objs, reg, req) ==
    LET objs1 == create_object(objs, LoadedData(req))
        created == Dump(objs1, reg, NewId(objs), req.args.include)
    IN  IF req.json.load # "ok"
        THEN Outcome(LoadFailure(req), <<>>, objs, reg)
        ELSE IF HookRaises(req)
        THEN Outcome(HookResult(req), <<Call("before_post", "")>>, objs, reg)
        ELSE Outcome(Return("triple", created, 201, created.data_self),
                     <<Call("before_post", ""), Call("create_object", ""),
                       Call("after_post", "")>>,
                     objs1, reg)

\* ------------------------------------------------ ResourceRelationship
\* request.path of a relationship request
Path(req) == "/articles/" \o Str(req.id) \o "/relationships/" \o req.segment

\* relationship_field.replace('-', '_')
Dedasherize(segment) == IF segment = "co-authors" THEN "co_authors" ELSE segment

\* _get_relationship_data replacing the dashes whatever DASHERIZE_API is
RelationshipDataDashed(cfg, req) ==
    IF Dedasherize(req.segment) = RelationshipField THEN RelationshipField ELSE None

\* _get_relationship_data: the relationship field named by the path, or None
\* when the schema declares no such relationship (RelationNotFound)
RelationshipData(cfg, req) ==
    LET field == IF cfg.DASHERIZE_API = TRUE THEN Dedasherize(req.segment) ELSE req.segment
    IN  IF field = RelationshipField THEN field ELSE None

NoRelation(req) ==
    Raise(RelationNotFound("", "ArticleSchema has no attribute " \o req.segment))

\* the checks on one object with the comparison of the type made before the
\* test for a missing id
ItemErrorTypeFirst(item, mismatch) ==
    IF item.type = Absent THEN BadRequest("/data/type", "Missing type in data node")
    ELSE IF item.type # RelatedType THEN InvalidType("/data/type", mismatch)
    ELSE IF item.id = AbsentId THEN BadRequest("/data/id", "Missing id in data node")
    ELSE NoExc

\* the checks made on one resource identifier object of the body
ItemError(item, mismatch) ==
    IF item.type = Absent THEN BadRequest("/data/type", "Missing type in data node")
    ELSE IF item.id = AbsentId THEN BadRequest("/data/id", "Missing id in data node")
    ELSE IF item.type # RelatedType THEN InvalidType("/data/type", mismatch)
    ELSE NoExc

RECURSIVE FirstError(_)
FirstError(items) ==
    IF items = <<>> THEN NoExc
    ELSE LET e == ItemError(Head(items), "The type provided does not match the resource type")
         IN  IF e # NoExc THEN e ELSE FirstError(Tail(items))

\* the validation of json_data shared by post, patch and delete; NoExc when it passes
BodyError(json) ==
    IF ~json.has_data
    THEN BadRequest("/data", "You must provide data with a data route node")
    ELSE IF json.data_kind = "object"
    THEN ItemError(json.data[1], "The type field does not match the resource type")
    ELSE IF json.data_kind = "list"
    THEN FirstError(json.data)
    ELSE NoExc

\* the related identifiers named by the body
BodyIdents(json) == {json.data[i].id[2] : i \in DOMAIN json.data}

\* includes = qs.include, the relationship field appended when it is not there
Includes(include, field) ==
    IF \E i \in DOMAIN include : include[i] = field THEN include ELSE Append(include, field)

\* url_for(related_view, **related_view_kwargs)
RelatedUrl(value) ==
    "/people/" \o (IF value.placeholder THEN "<" \o value.path[1] \o ">" ELSE value.text)

\* getattr(obj, field) along the placeholder's path
Attribute(id, path) == Str(id)

RelGetHandler(cfg, objs, reg, req) ==
    LET field == RelationshipData(cfg, req)
        cs == <<Call("before_get", "")>>
        cs1 == Append(cs, Call("get_relationship", ""))
        kw == reg.related_view_kwargs
        kw1 == IF kw.placeholder THEN Text(Attribute(req.id, kw.path)) ELSE kw
        doc == [BlankDoc EXCEPT !.shape = "relationship", !.self = Path(req),
                    !.related = RelatedUrl(kw1), !.linkage = objs[req.id].authors,
                    !.include = req.args.include]
    IN  IF HookRaises(req)
        THEN Outcome(HookResult(req), cs, objs, reg)
        ELSE IF field = None
        THEN Outcome(NoRelation(req), cs, objs, reg)
        ELSE IF ~objs[req.id].exists
        THEN Outcome(Raise(ObjectNotFound("", "Object Not Found")), cs1, objs, reg)
        ELSE Outcome(Return("bare", doc, 200, None), Append(cs1, Call("after_get", "")),
                     objs, [reg EXCEPT !.related_view_kwargs = kw1])

\* the part post, patch and delete share up to the data-layer call: the outcome
\* when the request is rejected, else Pass
Rejected(cfg, objs, reg, req, hook, op) ==
    LET field == RelationshipData(cfg, req)
        err == BodyError(req.json)
    IN  IF field = None
        THEN Outcome(NoRelation(req), <<>>, objs, reg)
        ELSE IF ~req.json.present
        THEN Outcome(Crash("argument of type NoneType is not iterable"), <<>>, objs, reg)
        ELSE IF err # NoExc
        THEN Outcome(Raise(err), <<>>, objs, reg)
        ELSE IF HookRaises(req)
        THEN Outcome(HookResult(req), <<Call(hook, "")>>, objs, reg)
        ELSE IF ~objs[req.id].exists
        THEN Outcome(Raise(ObjectNotFound("", "Object Not Found")),
                     <<Call(hook, ""), Call(op, "")>>, objs, reg)
        ELSE Outcome(Pass, <<>>, objs, reg)

\* schema.dump(obj_).data with links.self set to request.path
RelationshipResult(objs, reg, req) ==
    [Dump(objs, reg, req.id, Includes(req.args.include, RelationshipField))
        EXCEPT !.self = Path(req)]

RelPostHandler(cfg, objs, reg, req) ==
    LET rejected == Rejected(cfg, objs, reg, req, "before_post", "create_relationship")
        done == create_relationship(objs, req.id, BodyIdents(req.json))
        cs == <<Call("before_post", ""), Call("create_relationship", Flag(done.updated))>>
    IN  IF rejected.result # Pass THEN rejected
        ELSE IF done.updated = FALSE
        THEN Outcome(Return("pair", BlankDoc, 204, None), cs, done.objects, reg)
        ELSE Outcome(Return("pair", RelationshipResult(done.objects, reg, req), 200, None),
                     Append(cs, Call("after_post", "")), done.objects, reg)

RelPatchHandler(cfg, objs, reg, req) ==
    LET rejected == Rejected(cfg, objs, reg, req, "before_patch", "update_relationship")
        done == update_relationship(objs, req.id, BodyIdents(req.json))
        cs == <<Call("before_patch", ""), Call("update_relationship", Flag(done.updated))>>
    IN  IF rejected.result # Pass THEN rejected
        ELSE IF done.updated = FALSE
        THEN Outcome(Return("pair", BlankDoc, 204, None), cs, done.objects, reg)
        ELSE Outcome(Return("pair", RelationshipResult(done.objects, reg, req), 200, None),
                     Append(cs, Call("after_patch", "")), done.objects, reg)

\* line 513 with the two statuses exchanged
DeleteStatusExchanged(updated) == IF updated = TRUE THEN 204 ELSE 200

\* line 513: status_code = 200 if updated is True else 204
DeleteStatus(updated) == IF updated = TRUE THEN 200 ELSE 204

RelDeleteHandler(cfg, objs, reg, req) ==
    LET rejected == Rejected(cfg, objs, reg, req, "before_delete", "delete_relationship")
        done == delete_relationship(objs, req.id, BodyIdents(req.json))
        cs == <<Call("before_delete", ""), Call("delete_relationship", Flag(done.updated)),
                Call("after_delete", "")>>
    IN  IF rejected.result # Pass THEN rejected
        ELSE Outcome(Return("pair", RelationshipResult(done.objects, reg, req),
                            DeleteStatus(done.updated), None),
                     cs, done.objects, reg)

\* ---------------------------------------------- Resource.dispatch_request
ContentType == "application/vnd.api+json"

\* make_response(json.dumps(data), status, headers)
MakeResponse(data, status, location) ==
    [kind |-> "response", status |-> status, content_type |-> <<ContentType>>,
     location |-> location, etag |-> None, doc |-> data, body |-> JsonDumps(data)]

\* dispatch_request returned None
NoResponse ==
    [kind |-> "none", status |-> 0, content_type |-> <<>>, location |-> None,
     etag |-> None, doc |-> BlankDoc, body |-> ""]

\* dispatch_request re-raised the exception
Reraised == [NoResponse EXCEPT !.kind = "raised"]

\* [tag.strip() for tag in header.split(',')]
EtagList(header) == {header[i].tag : i \in DOMAIN header}

\* headers.add(key, value) written as a setdefault: nothing is added when
\* the header is there
AddHeaderIfNone(values, v) == IF values = <<>> THEN <<v>> ELSE values

\* werkzeug Headers.add(key, value): one more value of the header, after
\* those it has
AddHeader(values, v) == Append(values, v)

\* lines 84-86: a Response object gets the header added and is kept as it is
Prebuilt(res) ==
    [MakeResponse(res.data, res.status, None) EXCEPT
        !.content_type = AddHeader(IF res.mimetype = None THEN <<>> ELSE <<res.mimetype>>,
                                   ContentType)]

\* lines 84-106: the handler's return value made into a response
Normalize(res) ==
    LET data == IF IsDict(res.data) THEN Stamp(res.data) ELSE res.data
    IN  CASE res.form = "response" -> Prebuilt(res)
          [] res.form = "bare" -> MakeResponse(data, 200, None)
          [] res.form = "pair" -> MakeResponse(data, res.status, None)
          [] OTHER -> MakeResponse(data, res.status, res.location)

\* line 124 with the comparison of the hash left out
NoneMatchStarOnly(etag, tags) == "*" \in tags

\* line 124: etag in etag_list or '*' in etag_list
NoneMatch(etag, tags) == etag \in tags \/ "*" \in tags

\* line 117: etag not in etag_list and '*' not in etag_list
MatchFails(etag, tags) == etag \notin tags /\ "*" \notin tags

\* lines 108-129: the ETag block, and what the function returns after it
Conditional(cfg, req, resp) ==
    LET etag == Sha1(resp.body)
        tagged == [resp EXCEPT !.etag = etag]
    IN  IF cfg.ETAG = TRUE
        THEN IF req.if_match # <<>>
             THEN IF MatchFails(etag, EtagList(req.if_match))
                  THEN MakeResponse(ErrorDoc(PreconditionFailed("", "Precondition failed")),
                                    412, resp.location)
                  ELSE tagged
             ELSE IF req.if_none_match # <<>>
                  THEN IF NoneMatch(etag, EtagList(req.if_none_match))
                       THEN MakeResponse(ErrorDoc(NotModified("", "Resource not modified")),
                                         304, resp.location)
                       ELSE tagged
                  ELSE tagged
        ELSE NoResponse

\* lines 76-79 with the exception text whatever PROPOGATE_ERROR
ErrorTextAlways(cfg, text) == text

\* lines 76-79: the detail of the error answered for an unexpected exception
ErrorText(cfg, text) == IF cfg.PROPOGATE_ERROR = TRUE THEN text ELSE "Unknown error"

\* lines 67-82: the handler raised
Failure(cfg, res) ==
    IF res.kind = "jsonapi_exception"
    THEN MakeResponse(ErrorDoc(res.exc), res.exc.status, None)
    ELSE IF cfg.DEBUG = TRUE
    THEN Reraised
    ELSE MakeResponse(ErrorDoc(JsonApiException("", ErrorText(cfg, res.text))), 500, None)

dispatch_request(cfg, req, res) ==
    IF res.kind # "return"
    THEN Failure(cfg, res)
    ELSE Conditional(cfg, req, Normalize(res))

\* ------------------------------------------------------------- requests
NoJson ==
    [present |-> FALSE, load |-> "ok", load_errors |-> <<>>, has_data |-> FALSE,
     data_kind |-> "null", data |-> <<>>, title |-> "a"]

Item(type, id) == [type |-> type, id |-> id]

\* the body of a create or update: {"data": {"type": .., "id": .., "attributes": {"title": ..}}}
\* with the outcome schema.load has on it
ResourceJson(load, id, title) ==
    [present |-> TRUE, load |-> load,
     load_errors |-> CASE load = "ok" -> <<>>
                       [] load = "incorrect_type" -> <<"/data/type">>
                       [] OTHER -> <<"/data/attributes/title", "/data/attributes/body">>,
     has_data |-> TRUE, data_kind |-> "object",
     data |-> <<Item(ResourceType, id)>>, title |-> title]

Tag(t) == [ws |-> FALSE, tag |-> t]
Padded(t) == [ws |-> TRUE, tag |-> t]

Request(kind, method, id, segment, args, cond, json) ==
    [kind |-> kind, method |-> method, id |-> id, segment |-> segment, args |-> args,
     if_match |-> cond[1], if_none_match |-> cond[2], json |-> json, hook |-> "pass"]

Args(get_trashed, permanent, include) ==
    [get_trashed |-> get_trashed, permanent |-> permanent, include |-> include]

NoRequest == Request("", "", 0, "", Args(None, None, <<>>), <<<<>>, <<>>>>, NoJson)

\* request.args.get(flag): None when absent, else the raw string
FlagValues == {None, "true", "True"}

\* If-Match / If-None-Match pairs a client may send; h is an ETag it holds
Conditions(h) ==
    {<<<<>>, <<>>>>, <<<<Tag("zzz")>>, <<>>>>, <<<<>>, <<Tag("*")>>>>}
    \cup (IF h = None THEN {}
          ELSE {<<<<>>, <<Tag(h)>>>>, <<<<Tag("zzz"), Padded(h)>>, <<>>>>})

LoadOutcomes == {"ok", "incorrect_type", "validation_raised", "validation_returned"}

BodyIds == {AbsentId} \cup {JStr(Str(i)) : i \in ObjIds} \cup {JInt(i) : i \in ObjIds}

\* ----------------------------------------------------------------- steps
\* One request served from instantiation of the view class to the return of
\* dispatch_request.
Serve(req, out) ==
    /\ request' = req
    /\ calls' = out.calls
    /\ objects' = out.objects
    /\ registry' = out.registry
    /\ result' = out.result
    /\ response' = dispatch_request(config, req, out.result)
    /\ UNCHANGED <<config, held>>

NoConditions == {<<<<>>, <<>>>>}
FewConditions == {<<<<>>, <<>>>>, <<<<Tag("zzz")>>, <<>>>>}

\* The request sets below carry no conditional headers; a step adds them.
Unconditional(kind, method, id, segment, args, json) ==
    Request(kind, method, id, segment, args, <<<<>>, <<>>>>, json)

WithConditions(req, cond) == [req EXCEPT !.if_match = cond[1], !.if_none_match = cond[2]]

\* GET /articles/<id>
DetailGetRequests ==
    {Unconditional("detail", "GET", id, "", Args(t, None, <<>>), NoJson) :
        id \in ObjIds, t \in FlagValues}

\* PATCH /articles/<id>, the body well-formed
DetailPatchUpdates ==
    {Unconditional("detail", "PATCH", id, "", Args(t, None, <<>>),
                   ResourceJson("ok", JStr(Str(id)), title)) :
        id \in ObjIds, t \in FlagValues, title \in Titles}

\* PATCH /articles/<id>, every body identifier under every outcome of schema.load
DetailPatchBodies ==
    {Unconditional("detail", "PATCH", id, "", Args(None, None, <<>>),
                   ResourceJson(l, b, "b")) :
        id \in ObjIds, l \in LoadOutcomes, b \in BodyIds}

\* DELETE /articles/<id>
DetailDeleteRequests ==
    {Unconditional("detail", "DELETE", id, "", Args(None, p, <<>>), NoJson) :
        id \in ObjIds, p \in FlagValues}

\* GET /articles
ListGetRequests ==
    {Unconditional("list", "GET", 0, "", Args(None, None, <<>>), NoJson)}

\* POST /articles, the body well-formed
ListPostCreates ==
    {Unconditional("list", "POST", 0, "", Args(None, None, <<>>),
                   ResourceJson("ok", AbsentId, title)) : title \in Titles}

\* POST /articles under every outcome of schema.load
ListPostBodies ==
    {Unconditional("list", "POST", 0, "", Args(None, None, <<>>),
                   ResourceJson(l, AbsentId, "b")) : l \in LoadOutcomes}

\* The resource identifier objects a relationship body may carry.
ItemKinds ==
    {Item(RelatedType, JStr(r)) : r \in RelIds}
    \cup {Item("comments", JStr(r)) : r \in RelIds}
    \cup {Item(Absent, JStr(r)) : r \in RelIds}
    \cup {Item(RelatedType, AbsentId), Item("comments", AbsentId)}

Lists == UNION {[1..n -> ItemKinds] : n \in 0..MaxList}

RelJson(kind, items) ==
    [present |-> TRUE, load |-> "ok", load_errors |-> <<>>, has_data |-> TRUE,
     data_kind |-> kind, data |-> items, title |-> "a"]

NoDataJson == [RelJson("null", <<>>) EXCEPT !.has_data = FALSE]

RelBodies ==
    {NoJson, NoDataJson, RelJson("null", <<>>)}
    \cup {RelJson("object", <<i>>) : i \in ItemKinds}
    \cup {RelJson("list", l) : l \in Lists}

WellFormedRelBodies ==
    {RelJson("object", <<Item(RelatedType, JStr(r))>>) : r \in RelIds}
    \cup {RelJson("list", <<>>)}

Segments == {"co_authors", "co-authors", "tags"}
IncludeLists == {<<>>, <<RelationshipField>>}

\* GET /articles/<id>/relationships/co_authors
RelGetRequests ==
    {Unconditional("relationship", "GET", id, RelationshipField, Args(None, None, inc), NoJson) :
        id \in ObjIds, inc \in IncludeLists}

\* GET /articles/1/relationships/<segment>
RelGetSegments ==
    {Unconditional("relationship", "GET", 1, seg, Args(None, None, <<>>), NoJson) :
        seg \in Segments}

\* a write to /articles/1/relationships/co_authors with each body; the verb is
\* set by the step
RelWriteBodies ==
    {Unconditional("relationship", "", 1, RelationshipField, Args(None, None, <<>>), b) :
        b \in RelBodies}

\* a well-formed write to /articles/<id>/relationships/co_authors
RelWriteUpdates ==
    {Unconditional("relationship", "", id, RelationshipField, Args(None, None, inc), b) :
        id \in ObjIds, inc \in IncludeLists, b \in WellFormedRelBodies}

\* a well-formed write to /articles/1/relationships/<segment>
RelWriteSegments ==
    {Unconditional("relationship", "", 1, seg, Args(None, None, <<>>), b) :
        seg \in Segments, b \in WellFormedRelBodies}

\* what flask.request is for a request of the set under the given conditions
Incoming(req, method, cond) == [WithConditions(req, cond) EXCEPT !.method = method]

DetailGet(reqs, conds) ==
    \E r \in reqs, c \in conds :
        LET req == Incoming(r, "GET", c)
        IN  Serve(req, DetailGetHandler(config, objects, New(registry, "ResourceDetail"), req))

DetailPatch(reqs, conds) ==
    \E r \in reqs, c \in conds :
        LET req == Incoming(r, "PATCH", c)
        IN  Serve(req, DetailPatchHandler(config, objects, New(registry, "ResourceDetail"), req))

DetailDelete(reqs, conds) ==
    \E r \in reqs, c \in conds :
        LET req == Incoming(r, "DELETE", c)
        IN  Serve(req, DetailDeleteHandler(config, objects, New(registry, "ResourceDetail"), req))

ListGet(reqs, conds) ==
    \E r \in reqs, c \in conds :
        LET req == Incoming(r, "GET", c)
        IN  Serve(req, ListGetHandler(config, objects, New(registry, "ResourceList"), req))

\* the store of the model holds MaxObj objects: no create beyond that
ListPost(reqs, conds) ==
    \E r \in reqs, c \in conds :
        LET req == Incoming(r, "POST", c)
        IN  /\ req.json.load = "ok" => FreeIds(objects) # {}
            /\ Serve(req, ListPostHandler(config, objects, New(registry, "ResourceList"), req))

RelGet(reqs, conds) ==
    \E r \in reqs, c \in conds :
        LET req == Incoming(r, "GET", c)
        IN  Serve(req, RelGetHandler(config, objects, New(registry, "ResourceRelationship"), req))

RelPost(reqs, conds) ==
    \E r \in reqs, c \in conds :
        LET req == Incoming(r, "POST", c)
        IN  Serve(req, RelPostHandler(config, objects, New(registry, "ResourceRelationship"), req))

RelPatch(reqs, conds) ==
    \E r \in reqs, c \in conds :
        LET req == Incoming(r, "PATCH", c)
        IN  Serve(req, RelPatchHandler(config, objects, New(registry, "ResourceRelationship"), req))

RelDelete(reqs, conds) ==
    \E r \in reqs, c \in conds :
        LET req == Incoming(r, "DELETE", c)
        IN  Serve(req, RelDeleteHandler(config, objects, New(registry, "ResourceRelationship"), req))

\* the request without its conditional headers
Target(req) == [req EXCEPT !.if_match = <<>>, !.if_none_match = <<>>]

NoHeld == [etag |-> None, target |-> Target(NoRequest), doc |-> BlankDoc]

\* A client keeps the ETag of the response it just received.
ClientKeepsETag ==
    /\ response.kind = "response"
    /\ response.etag # None
    /\ held' = [etag |-> response.etag, target |-> Target(request), doc |-> response.doc]
    /\ UNCHANGED <<config, objects, registry, request, calls, result, response>>

\* ------------------------------------------------------------------ Init
Config(etag, soft, debug, propagate, dasherize) ==
    [ETAG |-> etag, SOFT_DELETE |-> soft, DEBUG |-> debug,
     PROPOGATE_ERROR |-> propagate, DASHERIZE_API |-> dasherize]

LiveObject(title, authors) ==
    [exists |-> TRUE, title |-> title, deleted_at |-> None, authors |-> authors]

InitWith(configs, declared) ==
    /\ config \in configs
    /\ objects = [i \in ObjIds |-> IF i = 1 THEN LiveObject("a", {}) ELSE NoObject]
    /\ \E d \in declared : registry = Registered(d)
    /\ request = NoRequest
    /\ calls = <<>>
    /\ result = Return("", BlankDoc, 0, None)
    /\ response = NoResponse
    /\ held = NoHeld

DetailConfigs == {Config(e, s, FALSE, FALSE, FALSE) : e, s \in BOOLEAN}

\* The single-item resource alone.
InitDetail == InitWith(DetailConfigs, BOOLEAN)
NextDetail ==
    \/ DetailGet(DetailGetRequests, Conditions(held.etag))
    \/ DetailPatch(DetailPatchUpdates, Conditions(held.etag))
    \/ DetailPatch(DetailPatchBodies, FewConditions)
    \/ DetailDelete(DetailDeleteRequests, Conditions(held.etag))
SpecDetail == InitDetail /\ [][NextDetail]_vars

\* The collection resource alone.
NextList ==
    \/ ListGet(ListGetRequests, Conditions(held.etag))
    \/ ListPost(ListPostCreates, Conditions(held.etag))
    \/ ListPost(ListPostBodies, FewConditions)
SpecList == InitDetail /\ [][NextList]_vars

\* The relationship resource alone.
RelConfigs == {Config(e, TRUE, FALSE, FALSE, d) : e, d \in BOOLEAN}
InitRel == InitWith(RelConfigs, {TRUE})
NextRel ==
    \/ RelGet(RelGetRequests, Conditions(held.etag))
    \/ RelGet(RelGetSegments, NoConditions)
    \/ RelPost(RelWriteBodies, NoConditions)
    \/ RelPost(RelWriteUpdates, Conditions(held.etag))
    \/ RelPost(RelWriteSegments, NoConditions)
    \/ RelPatch(RelWriteBodies, NoConditions)
    \/ RelPatch(RelWriteUpdates, Conditions(held.etag))
    \/ RelPatch(RelWriteSegments, NoConditions)
    \/ RelDelete(RelWriteBodies, NoConditions)
    \/ RelDelete(RelWriteUpdates, Conditions(held.etag))
    \/ RelDelete(RelWriteSegments, NoConditions)
SpecRel == InitRel /\ [][NextRel]_vars

\* The plain requests: no flag, no include, the declared relationship.
Plain(reqs) ==
    {r \in reqs : r.args = Args(None, None, <<>>) /\ r.segment \in {"", RelationshipField}}

PlainDetailGets == Plain(DetailGetRequests)
PlainDetailPatches == Plain(DetailPatchUpdates)
PlainDetailDeletes == Plain(DetailDeleteRequests)
PlainRelGets == Plain(RelGetRequests)
PlainRelWrites == Plain(RelWriteUpdates)

\* Conditional GETs of every resource kind between plain writes, by a client
\* that keeps ETags.
EtagConfigs == {Config(TRUE, TRUE, FALSE, FALSE, FALSE)}
InitEtag == InitWith(EtagConfigs, {TRUE})
NextEtag ==
    \/ DetailGet(DetailGetRequests, Conditions(held.etag))
    \/ ListGet(ListGetRequests, Conditions(held.etag))
    \/ RelGet(RelGetRequests, Conditions(held.etag))
    \/ DetailPatch(PlainDetailPatches, NoConditions)
    \/ DetailDelete(PlainDetailDeletes, NoConditions)
    \/ RelPost(PlainRelWrites, NoConditions)
    \/ ClientKeepsETag
SpecEtag == InitEtag /\ [][NextEtag]_vars

\* Every verb of every resource kind, interleaved.
Configs == {Config(e, TRUE, FALSE, FALSE, FALSE) : e \in BOOLEAN}
Init == InitWith(Configs, {TRUE})
Next ==
    \/ ListGet(ListGetRequests, Conditions(held.etag))
    \/ ListPost(ListPostCreates, NoConditions)
    \/ DetailGet(PlainDetailGets, Conditions(held.etag))
    \/ DetailPatch(PlainDetailPatches, NoConditions)
    \/ DetailDelete(DetailDeleteRequests, NoConditions)
    \/ RelGet(PlainRelGets, Conditions(held.etag))
    \/ RelPost(PlainRelWrites, NoConditions)
    \/ RelPatch(PlainRelWrites, NoConditions)
    \/ RelDelete(PlainRelWrites, NoConditions)
Spec == Init /\ [][Next]_vars

\* ---- dispatch_request over any verb method
\* A Resource subclass may define its verb methods itself; dispatch_request
\* handles whatever such a method returns or raises.
MetaDoc(message) == [BlankDoc EXCEPT !.shape = "meta", !.message = message]

CustomOutcomes ==
    {Return("bare", MetaDoc("ok"), 200, None),
     Return("pair", MetaDoc("ok"), 200, None),
     Return("pair", BlankDoc, 204, None),
     Return("triple", MetaDoc("made"), 201, "/made/1"),
     Raise(BadRequest("/data", "bad")),
     Crash("boom")}
    \cup {ReturnResponse(MetaDoc("own"), 200, m) : m \in {None, "text/html", ContentType}}

\* every pair of If-Match and If-None-Match headers over the tags "zzz" and
\* "*", and pairs that name a held ETag h
BothConditions(h) ==
    LET lists == {<<>>, <<Tag("zzz")>>, <<Tag("*")>>}
    IN  (lists \X lists)
        \cup (IF h = None THEN {}
              ELSE {<<<<Tag("zzz"), Padded(h)>>, <<>>>>,
                    <<<<Tag("zzz"), Padded(h)>>, <<Tag(h)>>>>,
                    <<<<Tag(h)>>, <<Tag("zzz")>>>>,
                    <<<<>>, <<Tag("zzz"), Padded(h)>>>>})

Custom(outcomes, conds) ==
    \E o \in outcomes, c \in conds :
        Serve(Request("custom", "GET", 0, "", Args(None, None, <<>>), c, NoJson),
              Outcome(o, <<>>, objects, registry))

HookOutcomes == {"pass", "raise", "crash"}
Hooked(reqs) == {[r EXCEPT !.hook = h] : r \in reqs, h \in HookOutcomes}

HookedDetailGets == Hooked(PlainDetailGets)
BodilessRelWrites ==
    {Unconditional("relationship", "", 1, RelationshipField, Args(None, None, <<>>), NoJson)}

DispatchConfigs ==
    {Config(TRUE, TRUE, d, p, FALSE) : d, p \in BOOLEAN}
    \cup {Config(FALSE, TRUE, FALSE, FALSE, FALSE)}
InitDispatch == InitWith(DispatchConfigs, {TRUE})
NextDispatch ==
    \/ Custom(CustomOutcomes, BothConditions(held.etag))
    \/ DetailGet(HookedDetailGets, FewConditions)
    \/ RelPost(BodilessRelWrites, FewConditions)
    \/ ClientKeepsETag
SpecDispatch == InitDispatch /\ [][NextDispatch]_vars

\* Every verb of every resource kind under every behaviour of its before_* hook.
HookedListGets == Hooked(ListGetRequests)
HookedListPosts == Hooked(ListPostBodies)
HookedDetailPatches ==
    Hooked({r \in DetailPatchBodies :
               r.id = 1 /\ r.json.data[1].id \in {AbsentId, JStr(Str(1))}})
HookedDetailDeletes == Hooked(PlainDetailDeletes)
HookedRelGets == Hooked(RelGetSegments)
HookedRelWrites ==
    Hooked({r \in RelWriteBodies :
               /\ r.json.data_kind # "list"
               /\ \A i \in DOMAIN r.json.data : r.json.data[i].type # Absent})

HookConfigs == {Config(TRUE, TRUE, FALSE, FALSE, FALSE)}
InitHooks == InitWith(HookConfigs, {TRUE})
NextHooks ==
    \/ ListGet(HookedListGets, NoConditions)
    \/ ListPost(HookedListPosts, NoConditions)
    \/ DetailGet(HookedDetailGets, NoConditions)
    \/ DetailPatch(HookedDetailPatches, NoConditions)
    \/ DetailDelete(HookedDetailDeletes, NoConditions)
    \/ RelGet(HookedRelGets, NoConditions)
    \/ RelPost(HookedRelWrites, NoConditions)
    \/ RelPatch(HookedRelWrites, NoConditions)
    \/ RelDelete(HookedRelWrites, NoConditions)
SpecHooks == InitHooks /\ [][NextHooks]_vars

\* Creates and updates under every outcome of schema.load.
NextLoad ==
    \/ ListPost(ListPostBodies, FewConditions)
    \/ ListPost(ListPostCreates, NoConditions)
    \/ DetailPatch(DetailPatchBodies, FewConditions)
    \/ DetailPatch(PlainDetailPatches, NoConditions)
SpecLoad == InitDetail /\ [][NextLoad]_vars

\* Every relationship verb on every trailing segment, with bodies that pass and
\* bodies that fail lines 386-402, and every behaviour of the before_* hook.
ShortRelBodies == {b \in RelBodies : Len(b.data) <= 1}
SegmentWrites ==
    Hooked({Unconditional("relationship", "", 1, seg, Args(None, None, <<>>), b) :
               seg \in Segments, b \in ShortRelBodies})
NextSegments ==
    \/ RelGet(HookedRelGets, FewConditions)
    \/ RelPost(SegmentWrites, NoConditions)
    \/ RelPatch(SegmentWrites, NoConditions)
    \/ RelDelete(SegmentWrites, NoConditions)
SpecSegments == InitRel /\ [][NextSegments]_vars

\* ================================================================ claims
Count(op) == Cardinality({i \in DOMAIN calls : calls[i].op = op})
Called(op) == Count(op) > 0
CalledWith(op, arg) == \E i \in DOMAIN calls : calls[i] = Call(op, arg)
Mutations == {"create_object", "update_object", "delete_object"}
Is(kind, method) == request.kind = kind /\ request.method = method

\* the ETag block's hash of the body the handler's return value encodes to
BodyHash == Sha1(Normalize(result).body)

\* C1 (as claimed): with ETAG enabled, a PATCH of a single item whose If-Match
\* header lists neither the hash of the response body nor "*" is answered 412
\* and update_object is not invoked by that request.
C1_NoUpdateOnPreconditionFailed ==
    (/\ config.ETAG
     /\ Is("detail", "PATCH")
     /\ result.kind = "return"
     /\ request.if_match # <<>>
     /\ BodyHash \notin EtagList(request.if_match)
     /\ "*" \notin EtagList(request.if_match))
    => (response.status = 412 /\ ~Called("update_object"))

IdMismatch == request.json.data[1].id # JStr(Str(request.id))

Raised400DataId ==
    /\ result.kind = "jsonapi_exception"
    /\ result.exc.status = 400
    /\ result.exc.pointer = "/data/id"

Answered400DataId ==
    /\ response.kind = "response"
    /\ response.status = 400
    /\ response.doc.shape = "errors"
    /\ Len(response.doc.errors) = 1
    /\ response.doc.errors[1].pointer = "/data/id"
    /\ response.doc.errors[1].status = "400"

NoMutation == \A op \in Mutations : ~Called(op)

\* C2 (as claimed): every PATCH of a single item whose data.id is missing or
\* differs from the identifier in the URL is answered 400 with pointer
\* /data/id, and no storage mutation occurs.
C2_IdMismatchIs400 ==
    (Is("detail", "PATCH") /\ IdMismatch) => (Raised400DataId /\ NoMutation)

\* C2 (amended): every PATCH of a single item whose body passes schema.load and
\* whose data.id is missing or differs from the identifier in the URL is
\* answered 400 with pointer /data/id; whether or not the body passes
\* schema.load, such a PATCH makes no storage mutation and leaves the store as
\* it was.
C2_ValidIdMismatchIs400 ==
    (Is("detail", "PATCH") /\ IdMismatch)
    => /\ request.json.load = "ok" => (Raised400DataId /\ Answered400DataId)
       /\ NoMutation
       /\ result.kind = "return" => result.status \in {409, 422}

C2_Witness ==
    /\ Is("detail", "PATCH")
    /\ request.json.load = "ok"
    /\ request.json.data[1].id = JStr(Str(2))
    /\ request.id = 1
    /\ objects[1].exists
    /\ Answered400DataId

\* C3: a DELETE of a single item that finds its object calls delete_object
\* exactly when the schema declares no deleted_at, or permanent is "true", or
\* SOFT_DELETE is disabled; otherwise it calls update_object with a populated
\* deleted_at; exactly one of the two is called, once, and a DELETE that finds
\* no object calls neither.
C3_SoftDeleteIsUpdate ==
    Is("detail", "DELETE") =>
        LET hard == \/ ~registry.deleted_at_declared
                    \/ request.args.permanent = "true"
                    \/ ~config.SOFT_DELETE
        IN  /\ Count("create_object") = 0
            /\ result.kind = "return" /\ hard =>
                    /\ Count("delete_object") = 1 /\ Count("update_object") = 0
                    /\ ~objects[request.id].exists
            /\ result.kind = "return" /\ ~hard =>
                    /\ Count("delete_object") = 0 /\ Count("update_object") = 1
                    /\ CalledWith("update_object", "deleted_at")
                    /\ objects[request.id].exists
                    /\ objects[request.id].deleted_at # None
            /\ result.kind # "return" =>
                    Count("delete_object") = 0 /\ Count("update_object") = 0

C3_Witness ==
    /\ Is("detail", "DELETE")
    /\ request.args.permanent = "True"
    /\ config.SOFT_DELETE /\ registry.deleted_at_declared
    /\ CalledWith("update_object", "deleted_at")
    /\ objects[request.id].deleted_at = Now

\* C4 (as claimed): every POST to the collection whose payload passes
\* schema.load calls create_object exactly once and is answered 201 with a
\* Location header equal to data.links.self of the created object in the body.
C4_CreatedWithLocation ==
    (Is("list", "POST") /\ request.json.load = "ok")
    => /\ Count("create_object") = 1
       /\ response.kind = "response"
       /\ response.status = 201
       /\ response.doc.shape = "resource"
       /\ response.location = response.doc.data_self

\* C9 (as claimed): whatever requests were served, the registered descriptor
\* data equal their registration-time values.
C9_RegistryReadOnly ==
    \E d \in BOOLEAN : registry = Registered(d)

\* C10 (as claimed): with ETAG not enabled, every verb invocation that succeeds
\* is answered with the handler's document, status and headers, without an
\* ETag header and whatever the If-Match / If-None-Match headers.
C10_ResponseWithoutEtag ==
    (~config.ETAG /\ request.method # "" /\ result.kind = "return")
    => /\ response.kind = "response"
       /\ response = Normalize(result)
       /\ response.etag = None

RepeatsHeldGet(req) ==
    /\ held.etag # None
    /\ held.target.method = "GET"
    /\ Target(req) = held.target
    /\ req.if_match = <<>>
    /\ req.if_none_match = <<Tag(held.etag)>>

\* C5: with ETAG enabled, a GET that repeats the GET a kept 200 response
\* answered, with If-None-Match set to that response's ETag and no If-Match, is
\* answered 304 when nothing was served in between, and whenever the document
\* it serializes equals the kept one; when the document differs it is answered
\* 200 with an ETag that differs from the kept one.
C5_ConditionalGet ==
    [][(config.ETAG /\ RepeatsHeldGet(request'))
       => /\ (/\ Target(request) = held.target
               /\ response.kind = "response" /\ response.status = 200
               /\ response.etag = held.etag)
              => response'.status = 304
          /\ (result'.kind = "return" /\ Normalize(result').doc = held.doc)
              => response'.status = 304
          /\ (result'.kind = "return" /\ Normalize(result').doc # held.doc)
              => /\ response'.status = 200
                 /\ response'.etag # None
                 /\ response'.etag # held.etag]_vars

C5_Witness ==
    /\ config.ETAG
    /\ RepeatsHeldGet(request)
    /\ request.kind = "relationship"
    /\ response.status = 304

C5_WitnessChanged ==
    /\ config.ETAG
    /\ RepeatsHeldGet(request)
    /\ response.status = 200
    /\ response.etag # held.etag

\* ---- relationship writes
RelWrite == request.kind = "relationship" /\ request.method \in {"POST", "PATCH", "DELETE"}

\* the trailing path segment names the declared relationship
Resolves ==
    \/ request.segment = "co_authors"
    \/ config.DASHERIZE_API /\ request.segment = "co-authors"

RelationshipOps == {"create_relationship", "update_relationship", "delete_relationship"}
BeforeHooks == {"before_get", "before_post", "before_patch", "before_delete"}

Offends(item) == item.type = Absent \/ item.id = AbsentId \/ item.type # RelatedType
HasOffender == \E i \in DOMAIN request.json.data : Offends(request.json.data[i])
FirstOffender ==
    request.json.data[CHOOSE i \in DOMAIN request.json.data :
                         /\ Offends(request.json.data[i])
                         /\ \A j \in 1..(i - 1) : ~Offends(request.json.data[j])]

Answered(status) ==
    /\ result.kind = "jsonapi_exception" /\ result.exc.status = status
    /\ response.kind = "response" /\ response.status = status

NotDispatched == \A op \in BeforeHooks \cup RelationshipOps : ~Called(op)

C7_SecondDeleteIs204 ==
    [][(Is("relationship", "DELETE") /\ result.kind = "return" /\ request' = request)
       => /\ \E i \in DOMAIN calls' : calls'[i] = Call("delete_relationship", "False")
          /\ objects' = objects
          /\ response'.kind = "response"
          /\ response'.status = 204]_vars

Updated(flag) == \E op \in RelationshipOps : CalledWith(op, flag)

Serialized ==
    /\ result.data.shape = "resource"
    /\ result.data.id = Str(request.id)
    /\ \E i \in DOMAIN result.data.include : result.data.include[i] = RelationshipField
    /\ result.data.linkage = objects[request.id].authors
    /\ result.data.self = Path(request)

\* C8: a relationship write that reaches the data layer returns by the
\* "updated" flag: POST and PATCH return ('', 204) when it is False and the
\* serialized owner with 200 when it is True; DELETE returns 200 when it is
\* True and 204 when it is False; every dict returned is the owner serialized
\* with the relationship field in the include list and links.self set to the
\* request path.
C8_StatusFollowsUpdated ==
    (RelWrite /\ result.kind = "return")
    => /\ Updated("True") # Updated("False")
       /\ result.form = "pair"
       /\ (request.method # "DELETE" /\ Updated("False"))
            => (result.status = 204 /\ result.data = BlankDoc)
       /\ (request.method # "DELETE" /\ Updated("True"))
            => (result.status = 200 /\ Serialized)
       /\ (request.method = "DELETE" /\ Updated("True"))
            => (result.status = 200 /\ Serialized)
       /\ (request.method = "DELETE" /\ Updated("False"))
            => (result.status = 204 /\ Serialized)

C8_Witness ==
    /\ Is("relationship", "DELETE")
    /\ Updated("False")
    /\ result.status = 204
    /\ Serialized
    /\ request.args.include = <<>>

\* ---- schema.load failures
CreateOrUpdate == Is("list", "POST") \/ Is("detail", "PATCH")

ErrorsTitled(doc, status, title) ==
    /\ doc.shape = "errors"
    /\ Len(doc.errors) = Len(request.json.load_errors)
    /\ \A i \in DOMAIN doc.errors :
          /\ doc.errors[i].status = status
          /\ doc.errors[i].title = title
          /\ doc.errors[i].pointer = request.json.load_errors[i]

\* C11: a create or an update whose schema.load fails with a structural type
\* mismatch returns the status 409 with every error entry titled "Incorrect
\* type"; one whose load fails field validation, raised or returned, returns
\* 422 with every entry titled "Validation error"; in both cases every error
\* of the load is in the one document returned, and neither a before_* hook
\* nor a method of the data layer was invoked.
C11_LoadFailureBatched ==
    (CreateOrUpdate /\ request.json.load # "ok")
    => /\ result.kind = "return"
       /\ calls = <<>>
       /\ request.json.load = "incorrect_type"
            => (result.status = 409 /\ ErrorsTitled(result.data, "409", "Incorrect type"))
       /\ request.json.load \in {"validation_raised", "validation_returned"}
            => (result.status = 422 /\ ErrorsTitled(result.data, "422", "Validation error"))

C11_Witness ==
    /\ Is("detail", "PATCH")
    /\ request.json.load = "validation_returned"
    /\ Len(request.json.load_errors) = 2
    /\ result.status = 422
    /\ Len(result.data.errors) = 2

\* ---- objects that are not there
AfterHooks == {"after_get", "after_post", "after_patch", "after_delete"}

\* C12: a GET, PATCH or DELETE of a single item whose get_object finds no
\* object (none stored, or a trashed one fetched without get_trashed) raises
\* ObjectNotFound and is answered 404; update_object and delete_object are not
\* called, the store is left as it was and the after_* hook is not invoked.
C12_NotFoundIs404 ==
    [][(/\ request'.kind = "detail"
        /\ \E i \in DOMAIN calls' :
              /\ calls'[i].op = "get_object"
              /\ get_object(objects, request'.id, calls'[i].arg = "get_trashed") = 0)
       => /\ result'.kind = "jsonapi_exception"
          /\ result'.exc = ObjectNotFound("", "Object Not Found")
          /\ response'.kind = "response"
          /\ response'.status = 404
          /\ \A i \in DOMAIN calls' :
                calls'[i].op \notin AfterHooks \cup {"update_object", "delete_object"}
          /\ objects' = objects]_vars

C12_Witness ==
    /\ Is("detail", "DELETE")
    /\ request.args.permanent = "True"
    /\ objects[request.id].exists
    /\ objects[request.id].deleted_at # None
    /\ CalledWith("get_object", "")
    /\ response.status = 404

\* ---- unexpected errors
\* C13: when a verb handler raises an exception that is no JsonApiException:
\* with DEBUG on it is re-raised and no response is built; otherwise the
\* answer is a 500 document of one error whose detail is "Unknown error", or
\* the exception text when PROPOGATE_ERROR is on; with both flags off the
\* exception text is in no response.
C13_UnexpectedError ==
    result.kind = "exception"
    => /\ config.DEBUG => response.kind = "raised"
       /\ ~config.DEBUG =>
            /\ response.kind = "response"
            /\ response.status = 500
            /\ response.doc.shape = "errors"
            /\ Len(response.doc.errors) = 1
            /\ response.doc.errors[1].status = "500"
            /\ response.doc.errors[1].detail =
                    IF config.PROPOGATE_ERROR THEN result.text ELSE "Unknown error"
       /\ (~config.DEBUG /\ ~config.PROPOGATE_ERROR) =>
            \A i \in DOMAIN response.doc.errors :
                /\ response.doc.errors[i].detail # result.text
                /\ response.doc.errors[i].title # result.text

C13_Witness ==
    /\ Is("relationship", "POST")
    /\ ~request.json.present
    /\ result.kind = "exception"
    /\ ~config.DEBUG /\ config.PROPOGATE_ERROR
    /\ response.status = 500
    /\ response.doc.errors[1].detail = result.text

\* C14: every response dispatch_request emits, on every path, carries the
\* Content-Type application/vnd.api+json.
C14_ContentType ==
    response.kind = "response"
    => \E i \in DOMAIN response.content_type : response.content_type[i] = ContentType

C14_Witness ==
    /\ result.kind = "return"
    /\ result.form = "response"
    /\ result.mimetype = "text/html"
    /\ response.kind = "response"
    /\ response.status = 200
    /\ response.content_type = <<"text/html", ContentType>>

\* C15 (as claimed): with ETAG enabled and both If-Match and If-None-Match
\* sent, the answer is 412 when neither the body hash nor "*" is in the
\* If-Match list; otherwise the If-None-Match list is evaluated and the answer
\* is 304 when the body hash or "*" is in it.
C15_NoneMatchAfterMatch ==
    (/\ config.ETAG
     /\ result.kind = "return"
     /\ request.if_match # <<>>
     /\ request.if_none_match # <<>>)
    => IF BodyHash \notin EtagList(request.if_match) /\ "*" \notin EtagList(request.if_match)
       THEN response.status = 412
       ELSE (BodyHash \in EtagList(request.if_none_match)
             \/ "*" \in EtagList(request.if_none_match))
            => response.status = 304

\* ---- conditional checks and the version marker on error documents
\* C16 (as claimed): when the verb invocation ends in an error (a raised
\* JsonApiException, an unexpected exception, or a 409/422 document of
\* schema.load errors), the status of the response emitted is that error's
\* status whatever the If-Match / If-None-Match headers; it is never replaced
\* by 412 or 304.
C16_ErrorsBypassConditions ==
    response.kind = "response"
    => /\ result.kind = "jsonapi_exception" => response.status = result.exc.status
       /\ result.kind = "exception" => response.status = 500
       /\ (result.kind = "return" /\ result.data.shape = "errors")
            => response.status = result.status

\* C17 (as claimed): the document of a response carries the version marker
\* exactly when it is a non-error, non-empty document: error documents, raised
\* or returned by a failed schema.load, and the empty 204 body carry none.
C17_VersionMarker ==
    response.kind = "response"
    => (response.doc.jsonapi <=> (IsDict(response.doc) /\ response.doc.shape # "errors"))

\* ---- hooks
Verb == request.method # "" /\ request.kind # "custom"

AfterHook ==
    CASE request.method = "GET" -> "after_get"
      [] request.method = "POST" -> "after_post"
      [] request.method = "PATCH" -> "after_patch"
      [] OTHER -> "after_delete"

BeforeHook ==
    CASE request.method = "GET" -> "before_get"
      [] request.method = "POST" -> "before_post"
      [] request.method = "PATCH" -> "before_patch"
      [] OTHER -> "before_delete"

\* C18 (as claimed): an invocation of a verb that completes without an error
\* (status below 400, the 204 of a relationship POST or PATCH that changed
\* nothing included) invokes the verb's after_* hook exactly once, as its last
\* call; one that ends in an error does not invoke it.
C18_AfterHookOnce ==
    Verb
    => /\ (result.kind = "return" /\ result.status < 400)
            => (Count(AfterHook) = 1 /\ calls[Len(calls)].op = AfterHook)
       /\ (result.kind # "return" \/ result.status >= 400) => Count(AfterHook) = 0

StorageOps ==
    Mutations \cup RelationshipOps \cup {"get_object", "get_collection", "get_relationship"}

ReachesStorage == \E i \in DOMAIN calls : calls[i].op \in StorageOps

\* the body of a create, an update or a relationship write passes the
\* handler's validation
BodyValid ==
    CASE Is("list", "POST") -> request.json.load = "ok"
      [] Is("detail", "PATCH") ->
            /\ request.json.load = "ok"
            /\ request.json.data[1].id = JStr(Str(request.id))
      [] RelWrite ->
            /\ Resolves
            /\ request.json.present
            /\ request.json.has_data
            /\ ~HasOffender
      [] OTHER -> TRUE

\* C19: a request that reaches the data layer has invoked its verb's before_*
\* hook exactly once and before its first data layer call; a create, an
\* update or a relationship write invokes the hook only when the body has
\* passed validation; when the hook raises, no data layer method is called.
C19_BeforeHookFirst ==
    Verb
    => /\ ReachesStorage => (Count(BeforeHook) = 1 /\ calls[1].op = BeforeHook)
       /\ Called(BeforeHook) => BodyValid
       /\ (BodyValid /\ result.kind = "return" /\ result.status < 400) => ReachesStorage
       /\ request.hook # "pass" =>
            /\ ~ReachesStorage
            /\ BodyValid => (calls = <<Call(BeforeHook, "")>> /\ result = HookResult(request))

C19_Witness ==
    /\ Is("detail", "PATCH")
    /\ request.hook = "raise"
    /\ BodyValid
    /\ objects[request.id].exists
    /\ calls = <<Call("before_patch", "")>>
    /\ response.status = 403

\* ---- related links
\* C20 (as claimed): whatever relationship GETs were served before, the
\* links.related URL a relationship GET returns is the template with its
\* placeholder replaced by the attribute of the object that request names.
C20_RelatedUrlOfOwner ==
    (Is("relationship", "GET") /\ result.kind = "return")
    => result.data.related = RelatedUrl(Text(Attribute(request.id, <<"id">>)))

\* ---- query flags and trashed objects
Trashed(objs, id) == objs[id].exists /\ objs[id].deleted_at # None

FetchedTrashed(cs) == \E i \in DOMAIN cs : cs[i] = Call("get_object", "get_trashed")

Fetched(cs) == \E i \in DOMAIN cs : cs[i].op = "get_object"

\* C21: the get_object call of a single-item request asks for trashed objects
\* exactly when, for GET and PATCH, get_trashed is the string "true" and, for
\* DELETE, permanent is the string "true"; so a DELETE of an object that is
\* already soft-deleted raises ObjectNotFound, is answered 404 and calls
\* neither update_object nor delete_object unless permanent is "true", and
\* with permanent "true" it calls delete_object and the object is gone.
C21_TrashedFetchedOnFlag ==
    [][(request'.kind = "detail" /\ Fetched(calls')) =>
        LET flag == IF request'.method = "DELETE"
                    THEN request'.args.permanent
                    ELSE request'.args.get_trashed
            again == request'.method = "DELETE" /\ Trashed(objects, request'.id)
        IN  /\ FetchedTrashed(calls') <=> flag = "true"
            /\ Cardinality({i \in DOMAIN calls' : calls'[i].op = "get_object"}) = 1
            /\ (again /\ flag # "true") =>
                    /\ result'.kind = "jsonapi_exception"
                    /\ result'.exc = ObjectNotFound("", "Object Not Found")
                    /\ response'.kind = "response"
                    /\ response'.status = 404
                    /\ \A i \in DOMAIN calls' :
                          calls'[i].op \notin {"update_object", "delete_object"}
                    /\ objects' = objects
            /\ (again /\ flag = "true") =>
                    /\ \E i \in DOMAIN calls' : calls'[i].op = "delete_object"
                    /\ \A i \in DOMAIN calls' : calls'[i].op # "update_object"
                    /\ ~objects'[request'.id].exists]_vars

C21_Witness ==
    /\ Is("detail", "DELETE")
    /\ request.args.permanent = None
    /\ config.SOFT_DELETE /\ registry.deleted_at_declared
    /\ Trashed(objects, request.id)
    /\ objects[request.id].deleted_at = Now
    /\ CalledWith("get_object", "")
    /\ result.kind = "jsonapi_exception"
    /\ response.status = 404

\* ---- unknown relationship segments
\* C22: a relationship GET, POST, PATCH or DELETE whose trailing path segment
\* (with '-' replaced by '_' when DASHERIZE_API is on, as it stands otherwise)
\* names no declared relationship raises RelationNotFound and is answered 404,
\* whatever its body is, valid or not; no data layer method is called and the
\* store is left as it was. (For GET: when its before_get hook, which runs
\* ahead of the resolution, raises nothing.)
C22_UnknownSegmentIs404 ==
    [][(/\ request'.kind = "relationship"
        /\ ~(Resolves)'
        /\ request'.method = "GET" => request'.hook = "pass")
       => /\ result'.kind = "jsonapi_exception"
          /\ result'.exc.status = 404
          /\ result'.exc.title = "Relation not found"
          /\ response'.kind = "response"
          /\ response'.status = 404
          /\ response'.doc.shape = "errors"
          /\ \A i \in DOMAIN calls' : calls'[i].op \in BeforeHooks
          /\ request'.method # "GET" => calls' = <<>>
          /\ objects' = objects]_vars

C22_Witness ==
    /\ RelWrite
    /\ request.segment = "co-authors" /\ ~config.DASHERIZE_API
    /\ ~request.json.present
    /\ request.hook = "raise"
    /\ result.kind = "jsonapi_exception"
    /\ result.exc.title = "Relation not found"
    /\ response.status = 404
    /\ calls = <<>>

====
